---- MODULE Spec2Model ----
(***************************************************************************)
(* WowUpAddonProvider (wowup-electron/src/app/addon-providers/             *)
(* wowup-addon-provider.ts): the hub provider's scan, getAll and           *)
(* getChangelog operations as state machines.                              *)
(*                                                                         *)
(* JavaScript's `undefined` is the empty sequence and a defined value x is *)
(* the one-element sequence <<x>>, so that optional values stay comparable.*)
(* Strings that the code parses (addon ids) are sequences of characters;   *)
(* strings that the code only compares or concatenates are TLA+ strings.   *)
(***************************************************************************)
EXTENDS Integers, Sequences, FiniteSets, TLC

VARIABLES
    scanPc,               \* position of the scan pass: idle, getScanResults, getAddonsByFingerprints, done, threw
    installation,         \* scan argument: <<>> or <<[clientType]>>
    addonChannelType,     \* scan argument: <<>> or <<channel>>
    addonFolders,         \* scan argument: the AddonFolder objects, mutated by scan
    scanResults,          \* the scanner's results, with exactMatch filled by scan
    fingerprintResponse,  \* <<>> or <<exactMatches>> once the lookup has answered
    fingerprintRequests,  \* the POST /addons/fingerprint requests sent so far: body and outcome
    getAllPc,             \* position of the getAll call: idle, postJson, done, threw
    getAllArgs,           \* <<>> or <<[clientType, addonIds]>>
    batchRequests,        \* bodies of the POST /addons/batch requests sent so far
    batchResponse,        \* <<>> or <<response>> once the batch request has answered
    getAllResult,         \* <<>> or <<[errors, searchResults]>>
    changelogPc,          \* position of the getChangelog call: idle, getJson, done, threw
    changelogArgs,        \* <<>> or <<[externalId, externalReleaseId]>>
    changelogLookup,      \* <<>> or <<outcome of getReleaseById as getChangelog saw it>>
    changelogResult,      \* <<>> or <<string>>
    cache,                \* Response Cache: key -> <<>> or <<value>>
    releaseRequests       \* number of GET /addons/{id}/releases/{releaseId} requests sent

scanVars == <<scanPc, installation, addonChannelType, addonFolders, scanResults,
              fingerprintResponse, fingerprintRequests>>
getAllVars == <<getAllPc, getAllArgs, batchRequests, batchResponse, getAllResult>>
changelogVars == <<changelogPc, changelogArgs, changelogLookup, changelogResult, cache,
                   releaseRequests>>
vars == <<scanVars, getAllVars, changelogVars>>

Undefined == <<>>
Some(x) == <<x>>
IsDefined(o) == o # <<>>
Get(o) == o[1]

ToSet(seq) == {seq[i] : i \in DOMAIN seq}

----------------------------------------------------------------------------
(* Bounds and input domains *)

MaxMatches == 2

WowClientType ==
    {"Retail", "Classic", "RetailPtr", "ClassicPtr", "Beta", "ClassicBeta", "ClassicEra", "None"}

WowGameType == {"Classic", "BurningCrusade", "Retail"}

AddonChannelType == {"Stable", "Beta"}

\* Installations the operations are called for: one client kind per catalog variant.
ClientTypes == {"ClassicEra", "Classic", "Retail"}

Fingerprints == {"f1", "f2"}

\* The folders on disk: path and folder name.
LocalFolders == {[path |-> "/A", name |-> "A"], [path |-> "/B", name |-> "B"]}

\* game_versions of a release: at most one entry per game type.
GameVersionLists ==
    { <<>>,
      <<[game_type |-> "Classic"]>>,
      <<[game_type |-> "Classic"], [game_type |-> "Retail"]>> }

\* addonFolders of a release: one folder, or two folders of other fingerprints.
ReleaseFolderLists ==
    { <<[folder_name |-> "A", fingerprint |-> "f1"]>>,
      <<[folder_name |-> "C", fingerprint |-> "f1"], [folder_name |-> "A", fingerprint |-> "f2"]>> }

Releases ==
    [prerelease : BOOLEAN, game_versions : GameVersionLists, addonFolders : ReleaseFolderLists]

FingerprintMatches == [matched_release : Releases]

SeqsUpTo(S, n) == UNION {[1..k -> S] : k \in 0..n}

Responses == SeqsUpTo(FingerprintMatches, MaxMatches)

\* Distinct local folders in any order, none included.
FolderLists ==
    {fs \in SeqsUpTo(LocalFolders, Cardinality(LocalFolders)) :
        \A i, j \in DOMAIN fs : i # j => fs[i] # fs[j]}

----------------------------------------------------------------------------
(* Pure helpers of the provider *)

getWowGameType(clientType) ==
    CASE clientType = "ClassicEra" -> "Classic"
      [] clientType \in {"Classic", "ClassicPtr", "ClassicBeta"} -> "BurningCrusade"
      [] OTHER -> "Retail"

\* release.game_versions.find(gv => gv.game_type === gameType): the first such
\* entry, or undefined.
getMatchingVersion(release, gameType) ==
    LET gvs == release.game_versions
        hits == {i \in DOMAIN gvs : gvs[i].game_type = gameType}
    IN  IF hits = {} THEN Undefined
        ELSE Some(gvs[CHOOSE i \in hits : \A j \in hits : i <= j])

hasGameType(release, clientType) ==
    getMatchingVersion(release, clientType) # Undefined

\* Mutant of hasMatchingFingerprint: matches by folder name.
hasMatchingFolderName(scanResult, release) ==
    \E i \in DOMAIN release.addonFolders :
        release.addonFolders[i].folder_name = scanResult.folderName

hasMatchingFingerprint(scanResult, release) ==
    \E i \in DOMAIN release.addonFolders :
        release.addonFolders[i].fingerprint = scanResult.fingerprint

getAddonReleaseChannel(file) ==
    IF file.prerelease THEN "Beta" ELSE "Stable"

\* Array.prototype.join(", ")
RECURSIVE Join(_)
Join(strs) ==
    IF strs = <<>> THEN ""
    ELSE IF Len(strs) = 1 THEN strs[1]
    ELSE strs[1] \o ", " \o Join(Tail(strs))

----------------------------------------------------------------------------
(* scan *)

\* fingerprintResponse.exactMatches.filter(hasMatchingFingerprint)
fingerprintMatchesOf(scanResult, exactMatches) ==
    LET Matches(m) == hasMatchingFingerprint(scanResult, m.matched_release)
    IN  SelectSeq(exactMatches, Matches)

\* Mutant of clientMatchOf: always the first fingerprint match.
clientMatchFirst(fingerprintMatches, gameType) ==
    IF Len(fingerprintMatches) > 0 THEN Some(fingerprintMatches[1]) ELSE Undefined

\* The match of the target game type, else the first fingerprint match.
clientMatchOf(fingerprintMatches, gameType) ==
    LET hits == {i \in DOMAIN fingerprintMatches :
                    hasGameType(fingerprintMatches[i].matched_release, gameType)}
    IN  IF hits # {} THEN Some(fingerprintMatches[CHOOSE i \in hits : \A j \in hits : i <= j])
        ELSE IF Len(fingerprintMatches) > 0 THEN Some(fingerprintMatches[1])
        ELSE Undefined

\* First loop of scan: exactMatch of every scan result.
matchScanResults(results, exactMatches, gameType) ==
    [i \in DOMAIN results |->
        [results[i] EXCEPT !.exactMatch =
            clientMatchOf(fingerprintMatchesOf(results[i], exactMatches), gameType)]]

\* The game version getAddon resolves: the one of the target type, else
\* game_versions[0], which is undefined for an empty list.
resolveVersion(release, gameType) ==
    LET found == getMatchingVersion(release, gameType)
    IN  IF IsDefined(found) THEN found
        ELSE IF Len(release.game_versions) > 0 THEN Some(release.game_versions[1])
        ELSE Undefined

\* Mutant of getAddon: the channel is derived from the release's prerelease flag.
getAddonReleaseDerived(inst, channel, scanResult) ==
    LET release == Get(scanResult.exactMatch).matched_release
        gameType == getWowGameType(inst.clientType)
        folders == [i \in DOMAIN release.addonFolders |-> release.addonFolders[i].folder_name]
        matchingVersion == resolveVersion(release, gameType)
    IN  IF ~IsDefined(matchingVersion)
        THEN [threw |-> TRUE]
        ELSE [threw |-> FALSE,
              addon |-> [channelType |-> getAddonReleaseChannel(release),
                         clientType |-> inst.clientType,
                         installedFolders |-> Join(folders),
                         installedFolderList |-> folders,
                         matchingVersion |-> matchingVersion]]

\* Mutant of getAddon: the folder list is the scanned folder's own name.
getAddonLocalFolder(inst, channel, scanResult) ==
    LET release == Get(scanResult.exactMatch).matched_release
        gameType == getWowGameType(inst.clientType)
        folders == <<scanResult.folderName>>
        matchingVersion == resolveVersion(release, gameType)
    IN  IF ~IsDefined(matchingVersion)
        THEN [threw |-> TRUE]
        ELSE [threw |-> FALSE,
              addon |-> [channelType |-> channel,
                         clientType |-> inst.clientType,
                         installedFolders |-> Join(folders),
                         installedFolderList |-> folders,
                         matchingVersion |-> matchingVersion]]

\* getAddon: [threw |-> TRUE] when it throws, else the addon entity.  With no
\* game version of the target type it falls back to game_versions[0] and reads
\* matchingVersion.interface for the warning, a TypeError when the list is empty.
getAddon(inst, channel, scanResult) ==
    LET release == Get(scanResult.exactMatch).matched_release
        gameType == getWowGameType(inst.clientType)
        folders == [i \in DOMAIN release.addonFolders |-> release.addonFolders[i].folder_name]
        folderList == Join(folders)
        channelType == channel
        matchingVersion == resolveVersion(release, gameType)
    IN  IF ~IsDefined(matchingVersion)
        THEN [threw |-> TRUE]
        ELSE [threw |-> FALSE,
              addon |-> [channelType |-> channelType,
                         clientType |-> inst.clientType,
                         installedFolders |-> folderList,
                         installedFolderList |-> folders,
                         matchingVersion |-> matchingVersion]]

\* Mutant of tryGetAddon: no catch, the exception leaves the loop.
tryGetAddonNoCatch(inst, channel, scanResult, addonFolder) ==
    LET r == getAddon(inst, channel, scanResult)
    IN  IF r.threw
        THEN [threw |-> TRUE, addonFolder |-> addonFolder]
        ELSE [threw |-> FALSE,
              addonFolder |-> [addonFolder EXCEPT !.matchingAddon = Some(r.addon)]]

\* The try/catch around getAddon: a throw is logged and the folder keeps no
\* matchingAddon.
tryGetAddon(inst, channel, scanResult, addonFolder) ==
    LET r == getAddon(inst, channel, scanResult)
    IN  IF r.threw
        THEN [threw |-> FALSE, addonFolder |-> addonFolder]
        ELSE [threw |-> FALSE,
              addonFolder |-> [addonFolder EXCEPT !.matchingAddon = Some(r.addon)]]

\* scanResults.find(sr => sr.path === addonFolder.path)
findScanResult(results, path) ==
    LET hits == {i \in DOMAIN results : results[i].path = path}
    IN  IF hits = {} THEN Undefined
        ELSE Some(results[CHOOSE i \in hits : \A j \in hits : i <= j])

\* Second loop of scan from folder i on: [threw, addonFolders].  An exception
\* outside the try block ends the loop and leaves the later folders untouched.
RECURSIVE resolveFolders(_, _, _, _, _)
resolveFolders(inst, channel, results, folders, i) ==
    IF i > Len(folders) THEN [threw |-> FALSE, addonFolders |-> folders]
    ELSE LET scanResult == findScanResult(results, folders[i].path)
         IN  IF ~IsDefined(scanResult)
             THEN [threw |-> TRUE, addonFolders |-> folders]
             ELSE IF ~IsDefined(Get(scanResult).exactMatch)
             THEN resolveFolders(inst, channel, results, folders, i + 1)
             ELSE LET r == tryGetAddon(inst, channel, Get(scanResult), folders[i])
                  IN  IF r.threw
                      THEN [threw |-> TRUE, addonFolders |-> folders]
                      ELSE resolveFolders(inst, channel, results,
                                          [folders EXCEPT ![i] = r.addonFolder], i + 1)

\* scan is called and awaits the folder scanner.
ScanCall(clientType, channel, folders) ==
    /\ scanPc \in {"idle", "done", "threw"}
    /\ scanPc' = "getScanResults"
    /\ installation' = Some([clientType |-> clientType])
    /\ addonChannelType' = Some(channel)
    /\ addonFolders' = [i \in DOMAIN folders |->
                           [path |-> folders[i].path, name |-> folders[i].name,
                            matchingAddon |-> Undefined]]
    /\ scanResults' = <<>>
    /\ fingerprintResponse' = Undefined
    /\ UNCHANGED fingerprintRequests

\* The scanner answers with one result per folder; scan posts the fingerprints.
GetScanResultsReturn(fingerprintOf) ==
    /\ scanPc = "getScanResults"
    /\ scanResults' = [i \in DOMAIN addonFolders |->
                          [path |-> addonFolders[i].path,
                           folderName |-> addonFolders[i].name,
                           fingerprint |-> fingerprintOf[addonFolders[i].path],
                           exactMatch |-> Undefined]]
    /\ fingerprintRequests' =
           Append(fingerprintRequests,
                  [fingerprints |-> [i \in DOMAIN addonFolders |->
                                        fingerprintOf[addonFolders[i].path]],
                   outcome |-> "pending"])
    /\ scanPc' = "getAddonsByFingerprints"
    /\ UNCHANGED <<installation, addonChannelType, addonFolders, fingerprintResponse>>

\* The scanner fails: the error leaves scan.
GetScanResultsThrow ==
    /\ scanPc = "getScanResults"
    /\ scanPc' = "threw"
    /\ UNCHANGED <<installation, addonChannelType, addonFolders, scanResults,
                   fingerprintResponse, fingerprintRequests>>

\* The fingerprint lookup answers: both loops of scan run to the end.
GetAddonsByFingerprintsReturn(exactMatches) ==
    /\ scanPc = "getAddonsByFingerprints"
    /\ LET inst == Get(installation)
           matched == matchScanResults(scanResults, exactMatches, getWowGameType(inst.clientType))
           r == resolveFolders(inst, Get(addonChannelType), matched, addonFolders, 1)
       IN  /\ scanResults' = matched
           /\ addonFolders' = r.addonFolders
           /\ scanPc' = IF r.threw THEN "threw" ELSE "done"
    /\ fingerprintResponse' = Some(exactMatches)
    /\ fingerprintRequests' =
           [fingerprintRequests EXCEPT ![Len(fingerprintRequests)].outcome = "ok"]
    /\ UNCHANGED <<installation, addonChannelType>>

\* The fingerprint lookup fails (timeout, open circuit): the error leaves scan.
GetAddonsByFingerprintsThrow ==
    /\ scanPc = "getAddonsByFingerprints"
    /\ scanPc' = "threw"
    /\ fingerprintRequests' =
           [fingerprintRequests EXCEPT ![Len(fingerprintRequests)].outcome = "failed"]
    /\ UNCHANGED <<installation, addonChannelType, addonFolders, scanResults,
                   fingerprintResponse>>


----------------------------------------------------------------------------
(* getAll *)

MaxIds == 2
MaxAddons == 2

\* Id strings handed to getAll, as character sequences.
AddonIdStrings ==
    { <<"1">>, <<"2">>, <<"1", "0">>, <<"0", "1">>, <<"1", "x">>, <<"x">>, <<"0">>, <<"-", "1">> }

RemoteIds == {1, 2, 10}

\* The releases of a catalog entry: a stable Classic release and a Classic and
\* Retail prerelease.
CatalogReleases ==
    << [prerelease |-> FALSE,
        game_versions |-> <<[game_type |-> "Classic"]>>,
        addonFolders |-> <<[folder_name |-> "A", fingerprint |-> "f1"]>>],
       [prerelease |-> TRUE,
        game_versions |-> <<[game_type |-> "Classic"], [game_type |-> "Retail"]>>,
        addonFolders |-> <<[folder_name |-> "A", fingerprint |-> "f1"]>>] >>

RemoteAddons == [id : RemoteIds, releases : {CatalogReleases}]

\* What the batch request can answer: no body, or any list of catalog entries.
BatchResponses ==
    {Undefined} \cup {Some([addons |-> as]) : as \in SeqsUpTo(RemoteAddons, MaxAddons)}

DigitChars == <<"0", "1", "2", "3", "4", "5", "6", "7", "8", "9">>
IsDigit(c) == \E d \in DOMAIN DigitChars : DigitChars[d] = c
DigitValue(c) == (CHOOSE d \in DOMAIN DigitChars : DigitChars[d] = c) - 1

RECURSIVE StripLeft(_)
StripLeft(str) ==
    IF str # <<>> /\ Head(str) = " " THEN StripLeft(Tail(str)) ELSE str

RECURSIVE DigitPrefix(_)
DigitPrefix(str) ==
    IF str # <<>> /\ IsDigit(Head(str)) THEN <<Head(str)>> \o DigitPrefix(Tail(str)) ELSE <<>>

RECURSIVE DigitsValue(_, _)
DigitsValue(digits, acc) ==
    IF digits = <<>> THEN acc
    ELSE DigitsValue(Tail(digits), 10 * acc + DigitValue(Head(digits)))

\* parseInt(str, 10): leading blanks, an optional sign and the longest run of
\* digits; NaN (undefined here) when there is no digit.
parseInt(str) ==
    LET s == StripLeft(str)
        signed == s # <<>> /\ Head(s) \in {"+", "-"}
        digits == DigitPrefix(IF signed THEN Tail(s) ELSE s)
    IN  IF digits = <<>> THEN Undefined
        ELSE Some(IF signed /\ Head(s) = "-" THEN 0 - DigitsValue(digits, 0)
                  ELSE DigitsValue(digits, 0))

\* Number.prototype.toString()
RECURSIVE toString(_)
toString(n) ==
    IF n < 0 THEN <<"-">> \o toString(0 - n)
    ELSE IF n < 10 THEN <<DigitChars[n + 1]>>
    ELSE toString(n \div 10) \o <<DigitChars[(n % 10) + 1]>>

isValidAddonId(addonId) ==
    LET idNumber == parseInt(addonId)
    IN  IsDefined(idNumber) /\ Get(idNumber) > 0

filterReleases(representation, gameType) ==
    LET HasType(release) ==
            \E j \in DOMAIN release.game_versions : release.game_versions[j].game_type = gameType
    IN  SelectSeq(representation.releases, HasType)

getSearchResultFile(release, gameType) ==
    [channelType |-> getAddonReleaseChannel(release),
     matchingVersion |-> getMatchingVersion(release, gameType)]

getSearchResult(representation, gameType) ==
    LET clientReleases == filterReleases(representation, gameType)
    IN  [externalId |-> toString(representation.id),
         files |-> [j \in DOMAIN clientReleases |->
                       getSearchResultFile(clientReleases[j], gameType)]]

\* _.map(addonIds, id => parseInt(id, 10))
addonIdListOf(ids) == [i \in DOMAIN ids |-> parseInt(ids[i])]

\* The ids no search result carries as its externalId.
missingAddonIdsOf(ids, searchResults) ==
    LET Missing(addonId) ==
            \A k \in DOMAIN searchResults : searchResults[k].externalId # addonId
    IN  SelectSeq(ids, Missing)

\* getAll is called and posts the parsed ids.
GetAllCall(clientType, ids) ==
    /\ getAllPc = "idle"
    /\ getAllArgs' = Some([clientType |-> clientType, addonIds |-> ids])
    /\ batchRequests' = Append(batchRequests, addonIdListOf(ids))
    /\ getAllPc' = "postJson"
    /\ UNCHANGED <<batchResponse, getAllResult>>

\* The batch request answers: search results and SourceRemoved errors.
PostJsonReturn(response) ==
    /\ getAllPc = "postJson"
    /\ LET gameType == getWowGameType(Get(getAllArgs).clientType)
           addons == IF IsDefined(response) THEN Get(response).addons ELSE <<>>
           searchResults == [k \in DOMAIN addons |-> getSearchResult(addons[k], gameType)]
           missingAddonIds == missingAddonIdsOf(Get(getAllArgs).addonIds, searchResults)
           deletedErrors == [k \in DOMAIN missingAddonIds |->
                                [error |-> "SourceRemoved", addonId |-> missingAddonIds[k]]]
       IN  getAllResult' = Some([errors |-> deletedErrors, searchResults |-> searchResults])
    /\ batchResponse' = Some(response)
    /\ getAllPc' = "done"
    /\ UNCHANGED <<getAllArgs, batchRequests>>

\* The batch request fails (timeout, open circuit): the error leaves getAll.
PostJsonThrow ==
    /\ getAllPc = "postJson"
    /\ getAllPc' = "threw"
    /\ UNCHANGED <<getAllArgs, batchRequests, batchResponse, getAllResult>>

----------------------------------------------------------------------------
(* getChangelog, getReleaseById and the response cache *)

MaxReleaseRequests == 2

ExternalIds == {"1", "2"}
ExternalReleaseIds == {"7", "8"}

\* The request url, the cache key of getReleaseById.
releaseUrl(addonId, releaseId) == "/addons/" \o addonId \o "/releases/" \o releaseId

CacheKeys == {releaseUrl(a, r) : a \in ExternalIds, r \in ExternalReleaseIds}

\* What GET /addons/{id}/releases/{releaseId} can answer: no body, a body
\* without a release, a release without a body, an empty body or a text.
ReleaseResponses ==
    { Undefined,
      Some([release |-> Undefined]),
      Some([release |-> Some([body |-> Undefined])]),
      Some([release |-> Some([body |-> Some("")])]),
      Some([release |-> Some([body |-> Some("changes")])]) }

RequestErrors == {"Timeout", "CircuitOpen", "Error"}

\* addon?.release?.body ?? ""
changelogBodyOf(response) ==
    IF ~IsDefined(response) THEN ""
    ELSE IF ~IsDefined(Get(response).release) THEN ""
    ELSE IF ~IsDefined(Get(Get(response).release).body) THEN ""
    ELSE Get(Get(Get(response).release).body)

\* Mutant of getChangelogOutcome: a failed lookup is not caught.
getChangelogNoCatch(lookup) ==
    IF lookup.threw THEN [threw |-> TRUE]
    ELSE [threw |-> FALSE, value |-> changelogBodyOf(lookup.value)]

\* The try/catch of getChangelog around the outcome of getReleaseById.
getChangelogOutcome(lookup) ==
    IF lookup.threw THEN [threw |-> FALSE, value |-> ""]
    ELSE [threw |-> FALSE, value |-> changelogBodyOf(lookup.value)]

\* getChangelog finishes with the outcome of the lookup.
FinishChangelog(lookup) ==
    LET r == getChangelogOutcome(lookup)
    IN  /\ changelogLookup' = Some(lookup)
        /\ changelogResult' = IF r.threw THEN Undefined ELSE Some(r.value)
        /\ changelogPc' = IF r.threw THEN "threw" ELSE "done"

\* getChangelog is called: a live cache entry answers at once, otherwise the
\* release is requested.
GetChangelogCall(externalId, externalReleaseId) ==
    LET key == releaseUrl(externalId, externalReleaseId)
    IN  /\ changelogPc \in {"idle", "done"}
        /\ changelogArgs' = Some([externalId |-> externalId,
                                  externalReleaseId |-> externalReleaseId])
        /\ IF IsDefined(cache[key])
           THEN /\ FinishChangelog([threw |-> FALSE, value |-> cache[key]])
                /\ UNCHANGED <<cache, releaseRequests>>
           ELSE /\ releaseRequests < MaxReleaseRequests
                /\ releaseRequests' = releaseRequests + 1
                /\ changelogPc' = "getJson"
                /\ changelogLookup' = Undefined
                /\ changelogResult' = Undefined
                /\ UNCHANGED cache

\* The release request answers: the cache keeps the response.
GetJsonReturn(response) ==
    LET key == releaseUrl(Get(changelogArgs).externalId, Get(changelogArgs).externalReleaseId)
    IN  /\ changelogPc = "getJson"
        /\ cache' = [cache EXCEPT ![key] = response]
        /\ FinishChangelog([threw |-> FALSE, value |-> response])
        /\ UNCHANGED <<changelogArgs, releaseRequests>>

\* The release request fails: nothing is cached.
GetJsonThrow(error) ==
    /\ changelogPc = "getJson"
    /\ FinishChangelog([threw |-> TRUE, error |-> error])
    /\ UNCHANGED <<changelogArgs, cache, releaseRequests>>

\* The time to live of a cache entry runs out.
CacheExpire(key) ==
    /\ IsDefined(cache[key])
    /\ cache' = [cache EXCEPT ![key] = Undefined]
    /\ UNCHANGED <<changelogPc, changelogArgs, changelogLookup, changelogResult,
                   releaseRequests>>

----------------------------------------------------------------------------
(* Specifications *)

MaxPasses == 2

ScanInit ==
    /\ scanPc = "idle"
    /\ installation = Undefined
    /\ addonChannelType = Undefined
    /\ addonFolders = <<>>
    /\ scanResults = <<>>
    /\ fingerprintResponse = Undefined
    /\ fingerprintRequests = <<>>

GetAllInit ==
    /\ getAllPc = "idle"
    /\ getAllArgs = Undefined
    /\ batchRequests = <<>>
    /\ batchResponse = Undefined
    /\ getAllResult = Undefined

ChangelogInit ==
    /\ changelogPc = "idle"
    /\ changelogArgs = Undefined
    /\ changelogLookup = Undefined
    /\ changelogResult = Undefined
    /\ cache = [key \in CacheKeys |-> Undefined]
    /\ releaseRequests = 0

Init == ScanInit /\ GetAllInit /\ ChangelogInit

\* One scan pass on a provider that has sent no fingerprint request yet.
Next ==
    \/ /\ scanPc = "idle"
       /\ \E clientType \in ClientTypes, channel \in AddonChannelType, folders \in FolderLists :
             ScanCall(clientType, channel, folders)
       /\ UNCHANGED <<getAllVars, changelogVars>>
    \/ /\ scanPc = "getScanResults"
       /\ \E fingerprintOf \in [{f.path : f \in LocalFolders} -> Fingerprints] :
             GetScanResultsReturn(fingerprintOf)
       /\ UNCHANGED <<getAllVars, changelogVars>>
    \/ GetScanResultsThrow /\ UNCHANGED <<getAllVars, changelogVars>>
    \/ /\ scanPc = "getAddonsByFingerprints"
       /\ \E exactMatches \in Responses : GetAddonsByFingerprintsReturn(exactMatches)
       /\ UNCHANGED <<getAllVars, changelogVars>>
    \/ GetAddonsByFingerprintsThrow /\ UNCHANGED <<getAllVars, changelogVars>>

Spec == Init /\ [][Next]_vars

\* Scan passes one after the other against a lookup that finds no match.
NextRescan ==
    \/ /\ scanPc \in {"idle", "done", "threw"}
       /\ Len(fingerprintRequests) < MaxPasses
       /\ \E clientType \in ClientTypes, channel \in AddonChannelType, folders \in FolderLists :
             ScanCall(clientType, channel, folders)
       /\ UNCHANGED <<getAllVars, changelogVars>>
    \/ /\ scanPc = "getScanResults"
       /\ \E fingerprintOf \in [{f.path : f \in LocalFolders} -> Fingerprints] :
             GetScanResultsReturn(fingerprintOf)
       /\ UNCHANGED <<getAllVars, changelogVars>>
    \/ GetScanResultsThrow /\ UNCHANGED <<getAllVars, changelogVars>>
    \/ GetAddonsByFingerprintsReturn(<<>>) /\ UNCHANGED <<getAllVars, changelogVars>>
    \/ GetAddonsByFingerprintsThrow /\ UNCHANGED <<getAllVars, changelogVars>>

SpecRescan == Init /\ [][NextRescan]_vars

\* One getAll call.
NextGetAll ==
    \/ /\ getAllPc = "idle"
       /\ \E clientType \in ClientTypes, ids \in SeqsUpTo(AddonIdStrings, MaxIds) :
             GetAllCall(clientType, ids)
       /\ UNCHANGED <<scanVars, changelogVars>>
    \/ /\ getAllPc = "postJson"
       /\ \E response \in BatchResponses : PostJsonReturn(response)
       /\ UNCHANGED <<scanVars, changelogVars>>
    \/ PostJsonThrow /\ UNCHANGED <<scanVars, changelogVars>>

SpecGetAll == Init /\ [][NextGetAll]_vars

\* getChangelog calls one after the other, with cache entries expiring.
NextChangelog ==
    \/ /\ \E externalId \in ExternalIds, externalReleaseId \in ExternalReleaseIds :
             GetChangelogCall(externalId, externalReleaseId)
       /\ UNCHANGED <<scanVars, getAllVars>>
    \/ /\ \E response \in ReleaseResponses : GetJsonReturn(response)
       /\ UNCHANGED <<scanVars, getAllVars>>
    \/ /\ \E error \in RequestErrors : GetJsonThrow(error)
       /\ UNCHANGED <<scanVars, getAllVars>>
    \/ /\ \E key \in CacheKeys : CacheExpire(key)
       /\ UNCHANGED <<scanVars, getAllVars>>

SpecChangelog == Init /\ [][NextChangelog]_vars

----------------------------------------------------------------------------
(* Properties of scan *)

\* The lookup has answered, so both loops of scan have run.
Answered == IsDefined(fingerprintResponse)
ExactMatches == Get(fingerprintResponse)
TargetVariant == getWowGameType(Get(installation).clientType)

Declares(release, variant) ==
    \E j \in DOMAIN release.game_versions : release.game_versions[j].game_type = variant

Lists(release, fingerprint) ==
    \E j \in DOMAIN release.addonFolders : release.addonFolders[j].fingerprint = fingerprint

\* Positions of the response whose release lists the fingerprint of scan result i.
Listing(i) ==
    {k \in DOMAIN ExactMatches : Lists(ExactMatches[k].matched_release, scanResults[i].fingerprint)}

\* The scan result of folder i (the scanner keeps the order of the folders).
ResultOf(i) == scanResults[i]

\* C1: whenever some match listing a scan result's fingerprint declares the
\* target variant, the match stored in exactMatch declares the target variant,
\* wherever the matches stand in the response.
C1_VariantPreference ==
    Answered =>
        \A i \in DOMAIN scanResults :
            (\E k \in Listing(i) : Declares(ExactMatches[k].matched_release, TargetVariant))
            => /\ IsDefined(scanResults[i].exactMatch)
               /\ Declares(Get(scanResults[i].exactMatch).matched_release, TargetVariant)

\* A match without the target variant stands before one with it, and the later
\* one was stored.
C1_Witness ==
    /\ Answered
    /\ \E i \in DOMAIN scanResults : \E k1, k2 \in Listing(i) :
          /\ k1 < k2
          /\ ~Declares(ExactMatches[k1].matched_release, TargetVariant)
          /\ Declares(ExactMatches[k2].matched_release, TargetVariant)
          /\ scanResults[i].exactMatch = Some(ExactMatches[k2])

\* C2: a folder whose fingerprint matches only releases without the target
\* variant gets the first such match, and its matchingAddon is set, also when
\* the matched release has an empty game-version list.
C2_FallbackResolves ==
    Answered =>
        \A i \in DOMAIN addonFolders :
            (/\ Listing(i) # {}
             /\ \A k \in Listing(i) : ~Declares(ExactMatches[k].matched_release, TargetVariant))
            => /\ ResultOf(i).exactMatch =
                      Some(ExactMatches[CHOOSE k \in Listing(i) : \A l \in Listing(i) : k <= l])
               /\ IsDefined(addonFolders[i].matchingAddon)

\* C5: exactMatch is set exactly when the response has a match whose release
\* lists the scan result's fingerprint, it is one of those matches, and a folder
\* without one keeps no matchingAddon and raises no error.
C5_FingerprintMatching ==
    Answered =>
        /\ scanPc = "done"
        /\ \A i \in DOMAIN scanResults :
              /\ IsDefined(scanResults[i].exactMatch) <=> Listing(i) # {}
              /\ IsDefined(scanResults[i].exactMatch)
                    => \E k \in Listing(i) : ExactMatches[k] = Get(scanResults[i].exactMatch)
              /\ Listing(i) = {} => ~IsDefined(addonFolders[i].matchingAddon)

\* A folder is matched by fingerprint to a release that lists no folder of its
\* name, while another folder whose name a release does list stays unmatched.
C5_Witness ==
    /\ Answered
    /\ \E i, j \in DOMAIN scanResults :
          /\ IsDefined(scanResults[i].exactMatch)
          /\ \A f \in ToSet(Get(scanResults[i].exactMatch).matched_release.addonFolders) :
                f.folder_name # scanResults[i].folderName
          /\ ~IsDefined(scanResults[j].exactMatch)
          /\ \E k \in DOMAIN ExactMatches :
                \E f \in ToSet(ExactMatches[k].matched_release.addonFolders) :
                    f.folder_name = scanResults[j].folderName

\* getAddon throws for folder i.
Throws(i) == getAddon(Get(installation), Get(addonChannelType), ResultOf(i)).threw

\* C6: a folder whose getAddon throws keeps no matchingAddon, every other
\* folder with a match has its matchingAddon set, and scan completes.
C6_FailureIsolation ==
    Answered =>
        /\ scanPc = "done"
        /\ \A i \in DOMAIN addonFolders :
              IsDefined(ResultOf(i).exactMatch)
              => (IsDefined(addonFolders[i].matchingAddon) <=> ~Throws(i))

\* getAddon threw for a folder and a later folder was resolved all the same.
C6_Witness ==
    /\ Answered
    /\ \E i, j \in DOMAIN addonFolders :
          /\ i < j
          /\ IsDefined(ResultOf(i).exactMatch)
          /\ Throws(i)
          /\ IsDefined(addonFolders[j].matchingAddon)

\* The folders scan built an addon for.
Resolved == {i \in DOMAIN addonFolders : IsDefined(addonFolders[i].matchingAddon)}
AddonOf(i) == Get(addonFolders[i].matchingAddon)
ReleaseOf(i) == Get(ResultOf(i).exactMatch).matched_release

\* C9 as stated: the channel of a built addon is Beta for a prerelease and
\* Stable otherwise.
C9_ChannelFromPrerelease ==
    Answered =>
        \A i \in Resolved :
            AddonOf(i).channelType = (IF ReleaseOf(i).prerelease THEN "Beta" ELSE "Stable")

\* C9 amended: the channel of a built addon is the channel preference passed to
\* scan, whatever the prerelease flag of the matched release.
C9_ChannelFromPreference ==
    Answered =>
        \A i \in Resolved : AddonOf(i).channelType = Get(addonChannelType)

\* An addon was built from a prerelease under the Stable preference, and from
\* a full release under the Beta preference.
C9_Witness ==
    /\ Answered
    /\ \E i \in Resolved :
          \/ ReleaseOf(i).prerelease /\ Get(addonChannelType) = "Stable"
          \/ ~ReleaseOf(i).prerelease /\ Get(addonChannelType) = "Beta"

\* The strings of a list separated by ", ".
RECURSIVE CommaSeparated(_)
CommaSeparated(strs) ==
    IF Len(strs) = 0 THEN ""
    ELSE IF Len(strs) = 1 THEN strs[1]
    ELSE CommaSeparated(SubSeq(strs, 1, Len(strs) - 1)) \o ", " \o strs[Len(strs)]

\* C10 as stated: installedFolderList holds exactly the names of the scanned
\* local folders that belong to the match, and installedFolders joins it.
C10_LocalFolderNames ==
    Answered =>
        \A i \in Resolved :
            /\ ToSet(AddonOf(i).installedFolderList) =
                   {scanResults[j].folderName : j \in
                       {j \in DOMAIN scanResults : Lists(ReleaseOf(i), scanResults[j].fingerprint)}}
            /\ AddonOf(i).installedFolders = CommaSeparated(AddonOf(i).installedFolderList)

\* C10 amended: installedFolderList holds the folder names the matched release
\* lists, in the release's order, and installedFolders joins it with ", ".
C10_ReleaseFolderNames ==
    Answered =>
        \A i \in Resolved :
            /\ AddonOf(i).installedFolderList =
                   [j \in DOMAIN ReleaseOf(i).addonFolders |-> ReleaseOf(i).addonFolders[j].folder_name]
            /\ AddonOf(i).installedFolders = CommaSeparated(AddonOf(i).installedFolderList)

\* An addon was built whose folder list has two names, one of them of no
\* scanned folder.
C10_Witness ==
    /\ Answered
    /\ \E i \in Resolved :
          /\ Len(AddonOf(i).installedFolderList) = 2
          /\ \E n \in ToSet(AddonOf(i).installedFolderList) :
                \A j \in DOMAIN scanResults : scanResults[j].folderName # n

----------------------------------------------------------------------------
(* Properties of repeated scan passes *)

\* C8: the fingerprint lookup is cached by its fingerprint list, so no request
\* is sent for a list that an earlier request has already been answered for
\* (no cache entry expires in this model).
C8_CachedFingerprintLookup ==
    \A i, j \in DOMAIN fingerprintRequests :
        (i < j /\ fingerprintRequests[i].outcome = "ok")
        => fingerprintRequests[i].fingerprints # fingerprintRequests[j].fingerprints

----------------------------------------------------------------------------
(* Properties of getAll *)

RequestedIds == Get(getAllArgs).addonIds
ReturnedAddons == IF IsDefined(Get(batchResponse)) THEN Get(Get(batchResponse)).addons ELSE <<>>

\* The remote response holds no addon of the number the id was sent as.
Absent(addonId) ==
    \A k \in DOMAIN ReturnedAddons : Some(ReturnedAddons[k].id) # parseInt(addonId)

SourceRemoved(ids) == [k \in DOMAIN ids |-> [error |-> "SourceRemoved", addonId |-> ids[k]]]

\* C3: getAll returns one search result per addon of the response and one
\* SourceRemoved error for each requested id absent from the response, none
\* for an id whose addon was returned; only a failed request makes it fail.
C3_PartialBatch ==
    /\ getAllPc = "threw" => ~IsDefined(batchResponse)
    /\ getAllPc = "done" =>
          /\ Len(Get(getAllResult).searchResults) = Len(ReturnedAddons)
          /\ \A k \in DOMAIN ReturnedAddons :
                Get(getAllResult).searchResults[k].externalId = toString(ReturnedAddons[k].id)
          /\ Get(getAllResult).errors = SourceRemoved(SelectSeq(RequestedIds, Absent))

\* C4: no batch request carries a value derived from an id that
\* isValidAddonId rejects.
C4_IdValidation ==
    IsDefined(getAllArgs) =>
        \A i \in DOMAIN RequestedIds :
            ~isValidAddonId(RequestedIds[i])
            => \A r \in DOMAIN batchRequests : \A k \in DOMAIN batchRequests[r] :
                   batchRequests[r][k] # parseInt(RequestedIds[i])

----------------------------------------------------------------------------
(* Properties of getChangelog *)

\* The response of a successful lookup carries no release body.
NoBody(response) ==
    \/ response = Undefined
    \/ Get(response).release = Undefined
    \/ Get(Get(response).release).body = Undefined

\* C7: getChangelog never throws; it returns the empty string when the release
\* lookup fails and when the lookup succeeds without a release body.
C7_ChangelogNeverThrows ==
    /\ changelogPc # "threw"
    /\ changelogPc = "done" =>
          /\ IsDefined(changelogResult)
          /\ Get(changelogLookup).threw => Get(changelogResult) = ""
          /\ (~Get(changelogLookup).threw /\ NoBody(Get(changelogLookup).value))
                => Get(changelogResult) = ""

\* A lookup failed on an open circuit and getChangelog returned "".
C7_Witness ==
    /\ changelogPc = "done"
    /\ Get(changelogLookup).threw
    /\ Get(changelogLookup).error = "CircuitOpen"
    /\ changelogResult = Some("")

====
